---- MODULE Spec2Model ----
(***************************************************************************)
(* Model of src/lib.rs: SupervisedProcess, a supervisor that launches one  *)
(* external process, evaluates named health-check predicates against it    *)
(* every check_interval, and on a failed round kills it and either         *)
(* relaunches it (while the restart budget allows) or stops.               *)
(*                                                                         *)
(* One supervisor instance is a record: `self` is the SupervisedProcess    *)
(* struct, the other fields are the position of run()/test_loop() in their *)
(* code, the live Child handle, and the trace of everything the run did    *)
(* (spawns, sleeps, predicate calls, kills, hook calls).                   *)
(***************************************************************************)
EXTENDS Integers, Sequences, FiniteSets, TLC

VARIABLES sup, twin

vars == <<sup, twin>>

\* ------------------------------------------------------------------ bounds
\* Largest finite restart budget given to with_restart_times.
MaxBudget == 2
\* Largest number of tests added with add_test.
MaxTests == 2
\* Test rounds one run may start before the model stops following it.
MaxRounds == 3
\* Builder calls made on one supervisor before run().
MaxCalls == 3

\* ------------------------------------------------------- values and inputs
\* Option<u64>: None is the empty set, Some(n) the singleton {n}.
None == {}

Some(n) == {n}

Unwrap(o) == CHOOSE n \in o : TRUE

\* Duration::from_secs(30), the default of check_interval and backoff_time.
DefaultSecs == 30

\* The command named by `process`, by what Command::spawn does with it.
Processes == {"launchable", "nonexistent", "unreliable"}

SpawnOutcomes(process) ==
    CASE process = "launchable"  -> {TRUE}
      [] process = "nonexistent" -> {FALSE}
      [] OTHER                   -> {TRUE, FALSE}

\* The predicates of the crate's tests: |_| false, |_| true, and
\* |child| matches!(child.try_wait(), Ok(None)).
TestKinds == {"false", "true", "alive"}

TestNames == <<"A", "B", "C", "D">>

Hooks == {"on_test_start", "on_tests_passing", "on_test_ok",
          "on_test_error", "on_restart", "on_no_restart"}

HookSets == {{}, Hooks, {"on_restart"}, {"on_no_restart"}}

Budgets == {None} \cup {Some(n) : n \in 0..MaxBudget}

TestLists ==
    UNION {{[i \in 1..n |-> [name |-> TestNames[i], kind |-> k[i]]] :
               k \in [1..n -> TestKinds]} : n \in 0..MaxTests}

\* ------------------------------------------------------------- the struct
Default ==
    [process          |-> "",
     args             |-> <<>>,
     restart_times    |-> None,
     check_interval   |-> DefaultSecs,
     backoff_time     |-> DefaultSecs,
     tests            |-> <<>>,
     on_test_start    |-> FALSE,
     on_tests_passing |-> FALSE,
     on_test_ok       |-> FALSE,
     on_test_error    |-> FALSE,
     on_restart       |-> FALSE,
     on_no_restart    |-> FALSE]

new(process) == [Default EXCEPT !.process = process]

\* ------------------------------------------------------------ the builder
with_check_interval(self, check_interval) ==
    [self EXCEPT !.check_interval = check_interval]

with_backoff_time(self, backoff_time) ==
    [self EXCEPT !.backoff_time = backoff_time]

\* A with_restart_times that fills the other fields with ..Self::default().
with_restart_times_from_default(self, restart_times) ==
    [Default EXCEPT !.restart_times = Some(restart_times)]

with_restart_times(self, restart_times) ==
    [self EXCEPT !.restart_times = Some(restart_times)]

\* args.into_iter().map(|a| a.to_string()).collect(); the arguments given are
\* strings, whose to_string() is the same text.
with_args(self, args) ==
    [self EXCEPT !.args = [i \in 1..Len(args) |-> args[i]]]

\* tests.push((name.into(), test))
add_test(self, name, test) ==
    [self EXCEPT !.tests = Append(self.tests, [name |-> name, kind |-> test])]

\* The six hook setters: each stores Some(handler) in its own slot.
on_restart(self) == [self EXCEPT !.on_restart = TRUE]

on_no_restart(self) == [self EXCEPT !.on_no_restart = TRUE]

on_test_start(self) == [self EXCEPT !.on_test_start = TRUE]

on_tests_passing(self) == [self EXCEPT !.on_tests_passing = TRUE]

on_test_ok(self) == [self EXCEPT !.on_test_ok = TRUE]

on_test_error(self) == [self EXCEPT !.on_test_error = TRUE]

\* The supervisors run() is called on: new(process) followed by builder
\* calls that set the budget, the tests and the hooks.
Configs ==
    {[new(p) EXCEPT !.restart_times    = b,
                    !.tests            = t,
                    !.on_test_start    = "on_test_start" \in h,
                    !.on_tests_passing = "on_tests_passing" \in h,
                    !.on_test_ok       = "on_test_ok" \in h,
                    !.on_test_error    = "on_test_error" \in h,
                    !.on_restart       = "on_restart" \in h,
                    !.on_no_restart    = "on_no_restart" \in h] :
        p \in Processes, b \in Budgets, t \in TestLists, h \in HookSets}

\* ---------------------------------------------------------------- traces
\* One entry of the trace: what happened, its argument (a test name, a
\* spawn outcome, the slept field), and the Child handle it was done to.
Ev(ev, arg, h) == [ev |-> ev, arg |-> arg, h |-> h]

\* event!(handler, args): calls the handler when the slot is Some.
event(log, handler, ev, arg) ==
    IF handler THEN Append(log, Ev(ev, arg, 0)) ELSE log

NoChild == [id |-> 0, alive |-> FALSE, kill |-> "none"]

Count(log, ev) == Len(SelectSeq(log, LAMBDA e : e.ev = ev))

CountArg(log, ev, arg) ==
    Len(SelectSeq(log, LAMBDA e : e.ev = ev /\ e.arg = arg))

Launches(s) == CountArg(s.log, "spawn", "ok")

Rounds(s) == CountArg(s.log, "sleep", "check_interval")

\* ------------------------------------------------------- should_restart
\* A should_restart that tests the budget after decrementing it.
should_restart_late(self) ==
    IF self.restart_times = None
    THEN [ret |-> TRUE, self |-> self]
    ELSE IF self.restart_times = Some(0)
    THEN [ret |-> FALSE, self |-> self]
    ELSE [ret  |-> Unwrap(self.restart_times) - 1 > 0,
          self |-> [self EXCEPT
                      !.restart_times = Some(Unwrap(self.restart_times) - 1)]]

\* A should_restart that reads an absent budget as a budget of 0.
should_restart_none_is_zero(self) ==
    IF self.restart_times \subseteq Some(0)
    THEN [ret |-> FALSE, self |-> self]
    ELSE [ret  |-> TRUE,
          self |-> [self EXCEPT
                      !.restart_times = Some(Unwrap(self.restart_times) - 1)]]

\* A should_restart without the Some(0) arm: every finite budget is
\* decremented and grants a restart.
should_restart_unchecked(self) ==
    IF self.restart_times = None
    THEN [ret |-> TRUE, self |-> self]
    ELSE [ret  |-> TRUE,
          self |-> [self EXCEPT
                      !.restart_times = Some(Unwrap(self.restart_times) - 1)]]

should_restart(self) ==
    IF self.restart_times = None
    THEN [ret |-> TRUE, self |-> self]
    ELSE IF self.restart_times = Some(0)
    THEN [ret |-> FALSE, self |-> self]
    ELSE [ret  |-> TRUE,
          self |-> [self EXCEPT
                      !.restart_times = Some(Unwrap(self.restart_times) - 1)]]

\* ------------------------------------------------------------------ run
\* A run() that takes a failed launch for a failed round: it asks
\* should_restart and launches again while the budget allows.
SpawnRetry(s, ok) ==
    IF ok
    THEN [s EXCEPT !.pc    = "sleep",
                   !.child = [id |-> Launches(s) + 1, alive |-> TRUE,
                              kill |-> "none"],
                   !.log   = Append(s.log, Ev("spawn", "ok", Launches(s) + 1))]
    ELSE LET d == should_restart(s.self)
         IN  [s EXCEPT !.pc     = IF d.ret THEN "spawn" ELSE "returned",
                       !.result = IF d.ret THEN "none" ELSE "Err",
                       !.self   = d.self,
                       !.log    = Append(s.log, Ev("spawn", "err", 0))]

\* A run() that reports a failed launch through on_no_restart too.
SpawnNotify(s, ok) ==
    IF ok
    THEN [s EXCEPT !.pc    = "sleep",
                   !.child = [id |-> Launches(s) + 1, alive |-> TRUE,
                              kill |-> "none"],
                   !.log   = Append(s.log, Ev("spawn", "ok", Launches(s) + 1))]
    ELSE [s EXCEPT !.pc     = "returned",
                   !.result = "Err",
                   !.log    = Append(event(s.log, s.self.on_no_restart,
                                           "on_no_restart", ""),
                                     Ev("spawn", "err", 0))]

\* A Spawn that gives the budget unit of the restart back when the
\* launch fails.
SpawnRefund(s, ok) ==
    IF ok
    THEN [s EXCEPT !.pc    = "sleep",
                   !.child = [id |-> Launches(s) + 1, alive |-> TRUE,
                              kill |-> "none"],
                   !.log   = Append(s.log, Ev("spawn", "ok", Launches(s) + 1))]
    ELSE [s EXCEPT !.pc     = "returned",
                   !.result = "Err",
                   !.self   = IF s.self.restart_times = None \/ Launches(s) = 0
                              THEN @
                              ELSE [@ EXCEPT !.restart_times =
                                               Some(Unwrap(@) + 1)],
                   !.log    = Append(s.log, Ev("spawn", "err", 0))]

\* run(), line 189-192: Command::new(process).args(args).spawn(), and the
\* `?` that returns Err("Failed to start process").
Spawn(s, ok) ==
    IF ok
    THEN [s EXCEPT !.pc    = "sleep",
                   !.child = [id |-> Launches(s) + 1, alive |-> TRUE,
                              kill |-> "none"],
                   !.log   = Append(s.log, Ev("spawn", "ok", Launches(s) + 1))]
    ELSE [s EXCEPT !.pc     = "returned",
                   !.result = "Err",
                   !.log    = Append(s.log, Ev("spawn", "err", 0))]

\* ------------------------------------------------------------ test_loop
\* thread::sleep(self.check_interval)
SleepCheck(s) ==
    [s EXCEPT !.pc  = "test_start",
              !.log = Append(s.log, Ev("sleep", "check_interval", 0))]

\* A TestStart that calls the handler of the wrong slot.
TestStartWrongSlot(s) ==
    [s EXCEPT !.pc  = IF Len(s.self.tests) = 0 THEN "passing" ELSE "eval",
              !.idx = 1,
              !.log = event(s.log, s.self.on_tests_passing,
                            "on_tests_passing", "")]

\* A TestStart whose event!(self.on_test_start) stands before the `loop`:
\* it fires in the first round after a launch only.
TestStartOncePerLaunch(s) ==
    [s EXCEPT !.pc  = IF Len(s.self.tests) = 0 THEN "passing" ELSE "eval",
              !.idx = 1,
              !.log = event(s.log,
                            /\ s.self.on_test_start
                            /\ Len(s.log) > 1
                            /\ s.log[Len(s.log) - 1].ev = "spawn",
                            "on_test_start", "")]

\* A TestStart whose fold is `any` in place of `all`: with nothing to
\* evaluate the round fails.
TestStartEmptyFails(s) ==
    [s EXCEPT !.pc  = IF Len(s.self.tests) = 0 THEN "kill" ELSE "eval",
              !.idx = 1,
              !.log = event(s.log, s.self.on_test_start, "on_test_start", "")]

\* event!(self.on_test_start), then the iterator of `all` is created.
TestStart(s) ==
    [s EXCEPT !.pc  = IF Len(s.self.tests) = 0 THEN "passing" ELSE "eval",
              !.idx = 1,
              !.log = event(s.log, s.self.on_test_start, "on_test_start", "")]

\* What the predicate of a test returns for the live handle.
TestOutcome(test, child) ==
    CASE test.kind = "true"  -> TRUE
      [] test.kind = "false" -> FALSE
      [] OTHER               -> child.alive

\* An Eval whose caller lost the `!` of `if !self.tests.iter_mut().all(..)`:
\* a round whose tests all pass is taken for a failed one, and conversely.
EvalInverted(s) ==
    LET test == s.self.tests[s.idx]
        ok == TestOutcome(test, s.child)
        called == Append(s.log, Ev(IF ok THEN "test_true" ELSE "test_false",
                                   test.name, s.child.id))
    IN  IF ok
        THEN [s EXCEPT
                !.pc  = IF s.idx = Len(s.self.tests) THEN "kill" ELSE "eval",
                !.idx = s.idx + 1,
                !.log = event(called, s.self.on_test_ok, "on_test_ok", test.name)]
        ELSE [s EXCEPT
                !.pc  = "passing",
                !.log = event(called, s.self.on_test_error, "on_test_error",
                              test.name)]

\* An Eval that does not stop at the first false: it goes on to the tests
\* after it, as a fold over the whole list would.
EvalNoShortCircuit(s) ==
    LET test == s.self.tests[s.idx]
        ok == TestOutcome(test, s.child)
        called == Append(s.log, Ev(IF ok THEN "test_true" ELSE "test_false",
                                   test.name, s.child.id))
        missed == Count(called, "test_false") > Count(called, "kill")
        after == IF s.idx < Len(s.self.tests) THEN "eval"
                 ELSE IF missed THEN "kill" ELSE "passing"
    IN  [s EXCEPT
           !.pc  = after,
           !.idx = s.idx + 1,
           !.log = IF ok
                   THEN event(called, s.self.on_test_ok, "on_test_ok", test.name)
                   ELSE event(called, s.self.on_test_error, "on_test_error",
                              test.name)]

\* One step of `all`: the closure on the next test. It calls the predicate
\* and fires on_test_ok or on_test_error; `all` stops at the first false.
Eval(s) ==
    LET test == s.self.tests[s.idx]
        ok == TestOutcome(test, s.child)
        called == Append(s.log, Ev(IF ok THEN "test_true" ELSE "test_false",
                                   test.name, s.child.id))
    IN  IF ok
        THEN [s EXCEPT
                !.pc  = IF s.idx = Len(s.self.tests) THEN "passing" ELSE "eval",
                !.idx = s.idx + 1,
                !.log = event(called, s.self.on_test_ok, "on_test_ok", test.name)]
        ELSE [s EXCEPT
                !.pc  = "kill",
                !.log = event(called, s.self.on_test_error, "on_test_error",
                              test.name)]

\* else branch: event!(self.on_tests_passing), and the loop goes round.
Passing(s) ==
    [s EXCEPT !.pc  = "sleep",
              !.log = event(s.log, s.self.on_tests_passing,
                            "on_tests_passing", "")]

\* A Kill written child.kill().map_err(..)?: a kill that fails ends run().
KillChecked(s, r) ==
    IF r = "ok"
    THEN [s EXCEPT !.pc    = "should_restart",
                   !.child = [@ EXCEPT !.kill = r, !.alive = FALSE],
                   !.log   = Append(s.log, Ev("kill", "", s.child.id))]
    ELSE [s EXCEPT !.pc     = "returned",
                   !.result = "Err",
                   !.child  = [@ EXCEPT !.kill = r],
                   !.log    = Append(s.log, Ev("kill", "", s.child.id))]

\* A Kill that asks first whether the child is still there, and leaves an
\* exited child alone.
KillIfAlive(s, r) ==
    IF s.child.alive
    THEN [s EXCEPT !.pc    = "should_restart",
                   !.child = [@ EXCEPT !.kill  = r,
                                       !.alive = IF r = "ok" THEN FALSE ELSE @],
                   !.log   = Append(s.log, Ev("kill", "", s.child.id))]
    ELSE [s EXCEPT !.pc = "should_restart"]

\* let _ = child.kill(): r is what kill() returned, which is dropped.
Kill(s, r) ==
    [s EXCEPT !.pc    = "should_restart",
              !.child = [@ EXCEPT !.kill  = r,
                                  !.alive = IF r = "ok" THEN FALSE ELSE @],
              !.log   = Append(s.log, Ev("kill", "", s.child.id))]

\* A Decide that asks should_restart of a copy of the supervisor: the
\* budget it decrements is lost.
DecideOnCopy(s) ==
    LET d == should_restart(s.self)
    IN  [s EXCEPT !.pc = IF d.ret THEN "backoff" ELSE "on_no_restart"]

\* if self.should_restart() { ... } else { ... }
Decide(s) ==
    LET d == should_restart(s.self)
    IN  [s EXCEPT !.pc   = IF d.ret THEN "backoff" ELSE "on_no_restart",
                  !.self = d.self]

\* A granted restart that does not wait: the backoff sleep is left out.
BackoffOmitted(s) == [s EXCEPT !.pc = "on_restart"]

\* thread::sleep(self.backoff_time)
Backoff(s) ==
    [s EXCEPT !.pc  = "on_restart",
              !.log = Append(s.log, Ev("sleep", "backoff_time", 0))]

\* A Restart that announces the restart only when the kill went through.
RestartIfKilled(s) ==
    [s EXCEPT !.pc    = "spawn",
              !.child = NoChild,
              !.log   = event(s.log, s.self.on_restart /\ s.child.kill = "ok",
                              "on_restart", "")]

\* event!(self.on_restart); return Ok(Operation::Restart); and run()'s
\* `continue`, which drops the Child of this iteration.
Restart(s) ==
    [s EXCEPT !.pc    = "spawn",
              !.child = NoChild,
              !.log   = event(s.log, s.self.on_restart, "on_restart", "")]

\* A test_loop that returns the exhausted budget as an error, which run()
\* hands on.
NoRestartAsError(s) ==
    [s EXCEPT !.pc     = "returned",
              !.result = "Err",
              !.child  = NoChild,
              !.log    = event(s.log, s.self.on_no_restart, "on_no_restart", "")]

\* A run() whose match arms are swapped: NoRestart goes round the loop.
NoRestartContinues(s) ==
    [s EXCEPT !.pc    = "spawn",
              !.child = NoChild,
              !.log   = event(s.log, s.self.on_no_restart, "on_no_restart", "")]

\* A NoRestart branch that sleeps the backoff like the Restart branch.
NoRestartWithBackoff(s) ==
    [s EXCEPT !.pc     = "returned",
              !.result = "Ok",
              !.child  = NoChild,
              !.log    = event(Append(s.log, Ev("sleep", "backoff_time", 0)),
                               s.self.on_no_restart, "on_no_restart", "")]

\* event!(self.on_no_restart); return Ok(Operation::NoRestart); and run()'s
\* return Ok(()).
NoRestart(s) ==
    [s EXCEPT !.pc     = "returned",
              !.result = "Ok",
              !.child  = NoChild,
              !.log    = event(s.log, s.self.on_no_restart, "on_no_restart", "")]

\* The supervised process exits by itself.
Exit(s) == [s EXCEPT !.child = [@ EXCEPT !.alive = FALSE]]

\* ------------------------------------------------------------ one instance
\* `built` keeps the supervisor as the builder left it, for reference.
Start(self) ==
    [self   |-> self,
     built  |-> self,
     pc     |-> "spawn",
     idx    |-> 1,
     child  |-> NoChild,
     log    |-> <<>>,
     result |-> "none"]

Init ==
    /\ \E self \in Configs : sup = Start(self)
    /\ twin = sup

DoSpawn ==
    /\ sup.pc = "spawn"
    /\ \E ok \in SpawnOutcomes(sup.self.process) : sup' = Spawn(sup, ok)
    /\ UNCHANGED twin

DoSleepCheck ==
    /\ sup.pc = "sleep"
    /\ Rounds(sup) < MaxRounds
    /\ sup' = SleepCheck(sup)
    /\ UNCHANGED twin

DoTestStart ==
    /\ sup.pc = "test_start"
    /\ sup' = TestStart(sup)
    /\ UNCHANGED twin

DoEval ==
    /\ sup.pc = "eval"
    /\ sup' = Eval(sup)
    /\ UNCHANGED twin

DoPassing ==
    /\ sup.pc = "passing"
    /\ sup' = Passing(sup)
    /\ UNCHANGED twin

DoKill ==
    /\ sup.pc = "kill"
    /\ \E r \in {"ok", "err"} : sup' = Kill(sup, r)
    /\ UNCHANGED twin

DoDecide ==
    /\ sup.pc = "should_restart"
    /\ sup' = Decide(sup)
    /\ UNCHANGED twin

DoBackoff ==
    /\ sup.pc = "backoff"
    /\ sup' = Backoff(sup)
    /\ UNCHANGED twin

DoRestart ==
    /\ sup.pc = "on_restart"
    /\ sup' = Restart(sup)
    /\ UNCHANGED twin

DoNoRestart ==
    /\ sup.pc = "on_no_restart"
    /\ sup' = NoRestart(sup)
    /\ UNCHANGED twin

ChildExit ==
    /\ sup.child.alive
    /\ sup' = Exit(sup)
    /\ UNCHANGED twin

\* The steps run() itself takes.
Run ==
    \/ DoSpawn
    \/ DoSleepCheck
    \/ DoTestStart
    \/ DoEval
    \/ DoPassing
    \/ DoKill
    \/ DoDecide
    \/ DoBackoff
    \/ DoRestart
    \/ DoNoRestart

Next ==
    \/ DoSpawn
    \/ DoSleepCheck
    \/ DoTestStart
    \/ DoEval
    \/ DoPassing
    \/ DoKill
    \/ DoDecide
    \/ DoBackoff
    \/ DoRestart
    \/ DoNoRestart
    \/ ChildExit

Spec == Init /\ [][Next]_vars

\* run() is sequential code on its own thread: it keeps taking its steps.
FairSpec == Spec /\ WF_vars(Run)

\* ------------------------------------------------------------- building
\* The builder calls made on new(process) before run(). Here the trace holds
\* the calls: which one, and the value it was given.
Durations == {1, 15}

ArgLists == {<<>>, <<"-n">>, <<"-n", "0.1">>}

Call(ev, val) == [ev |-> ev, val |-> val]

Called(s, self, ev, val) ==
    [s EXCEPT !.self = self, !.log = Append(s.log, Call(ev, val))]

BuildInit ==
    /\ \E p \in Processes : sup = [Start(new(p)) EXCEPT !.pc = "build"]
    /\ twin = sup

Building == sup.pc = "build" /\ Len(sup.log) < MaxCalls

BuildCheckInterval ==
    /\ Building
    /\ \E d \in Durations :
          sup' = Called(sup, with_check_interval(sup.self, d),
                        "with_check_interval", d)
    /\ UNCHANGED twin

BuildBackoffTime ==
    /\ Building
    /\ \E d \in Durations :
          sup' = Called(sup, with_backoff_time(sup.self, d),
                        "with_backoff_time", d)
    /\ UNCHANGED twin

BuildRestartTimes ==
    /\ Building
    /\ \E n \in 0..MaxBudget :
          sup' = Called(sup, with_restart_times(sup.self, n),
                        "with_restart_times", n)
    /\ UNCHANGED twin

BuildArgs ==
    /\ Building
    /\ \E a \in ArgLists :
          sup' = Called(sup, with_args(sup.self, a), "with_args", a)
    /\ UNCHANGED twin

BuildTest ==
    /\ Building
    /\ Len(sup.self.tests) < MaxTests
    /\ \E name \in {"A", "B"}, test \in TestKinds :
          sup' = Called(sup, add_test(sup.self, name, test), "add_test",
                        [name |-> name, kind |-> test])
    /\ UNCHANGED twin

BuildHook ==
    /\ Building
    /\ \/ sup' = Called(sup, on_restart(sup.self), "on_restart", TRUE)
       \/ sup' = Called(sup, on_no_restart(sup.self), "on_no_restart", TRUE)
       \/ sup' = Called(sup, on_test_start(sup.self), "on_test_start", TRUE)
       \/ sup' = Called(sup, on_tests_passing(sup.self), "on_tests_passing",
                        TRUE)
       \/ sup' = Called(sup, on_test_ok(sup.self), "on_test_ok", TRUE)
       \/ sup' = Called(sup, on_test_error(sup.self), "on_test_error", TRUE)
    /\ UNCHANGED twin

BuildNext ==
    \/ BuildCheckInterval
    \/ BuildBackoffTime
    \/ BuildRestartTimes
    \/ BuildArgs
    \/ BuildTest
    \/ BuildHook

BuildSpec == BuildInit /\ [][BuildNext]_vars

\* ------------------------------------------------------------ two instances
\* Both supervisors take the same step of run(); spawn() and the process
\* exits that the predicates see are the same for both, what kill() returns
\* is each one's own.
At(pc) == sup.pc = pc /\ twin.pc = pc

PairSpawn ==
    /\ At("spawn")
    /\ \E ok \in SpawnOutcomes(sup.self.process) :
          sup' = Spawn(sup, ok) /\ twin' = Spawn(twin, ok)

PairSleepCheck ==
    /\ At("sleep")
    /\ Rounds(sup) < MaxRounds
    /\ sup' = SleepCheck(sup) /\ twin' = SleepCheck(twin)

PairTestStart ==
    /\ At("test_start")
    /\ sup' = TestStart(sup) /\ twin' = TestStart(twin)

PairEval ==
    /\ At("eval")
    /\ sup' = Eval(sup) /\ twin' = Eval(twin)

PairPassing ==
    /\ At("passing")
    /\ sup' = Passing(sup) /\ twin' = Passing(twin)

PairKill ==
    /\ At("kill")
    /\ \E r1, r2 \in {"ok", "err"} :
          sup' = Kill(sup, r1) /\ twin' = Kill(twin, r2)

PairDecide ==
    /\ At("should_restart")
    /\ sup' = Decide(sup) /\ twin' = Decide(twin)

PairBackoff ==
    /\ At("backoff")
    /\ sup' = Backoff(sup) /\ twin' = Backoff(twin)

PairRestart ==
    /\ At("on_restart")
    /\ sup' = Restart(sup) /\ twin' = Restart(twin)

PairNoRestart ==
    /\ At("on_no_restart")
    /\ sup' = NoRestart(sup) /\ twin' = NoRestart(twin)

\* Before the kill both processes exit at the same point of the run.
PairExit ==
    /\ sup.pc \in {"sleep", "test_start", "eval", "passing", "kill"}
    /\ sup.child.alive /\ twin.child.alive
    /\ sup' = Exit(sup) /\ twin' = Exit(twin)

\* A process that outlived its kill() exits whenever it does.
PairStray ==
    /\ sup.pc \in {"should_restart", "backoff", "on_restart", "on_no_restart"}
    /\ \/ sup.child.alive /\ sup' = Exit(sup) /\ UNCHANGED twin
       \/ twin.child.alive /\ twin' = Exit(twin) /\ UNCHANGED sup

PairNext ==
    \/ PairSpawn
    \/ PairSleepCheck
    \/ PairTestStart
    \/ PairEval
    \/ PairPassing
    \/ PairKill
    \/ PairDecide
    \/ PairBackoff
    \/ PairRestart
    \/ PairNoRestart
    \/ PairExit
    \/ PairStray

PairSpec == Init /\ [][PairNext]_vars

\* ================================================================ claims
IsHook(e) == e.ev \in Hooks

\* The hook calls of a trace, in order.
HookTrace(log) == SelectSeq(log, IsHook)

\* A test that fails whatever the process does: every round fails.
AlwaysFails(self) == \E i \in 1..Len(self.tests) : self.tests[i].kind = "false"

\* Every test round started so far ended in a kill.
EveryRoundFailed(s) == Count(s.log, "kill") = Rounds(s)

\* No predicate has returned false so far.
NoTestFailed(s) == Count(s.log, "test_false") = 0

\* Test rounds that ran to their end.
RoundsDone(s) ==
    Rounds(s) - (IF s.pc \in {"test_start", "eval", "passing"} THEN 1 ELSE 0)

\* ---------------------------------------------------------------- C1
C1_Counts ==
    (sup.result = "Ok" /\ EveryRoundFailed(sup)) =>
        /\ sup.built.restart_times # None
        /\ LET n == Unwrap(sup.built.restart_times)
           IN  /\ Launches(sup) = n + 1
               /\ CountArg(sup.log, "sleep", "backoff_time") = n
               /\ sup.self.on_restart => Count(sup.log, "on_restart") = n
               /\ sup.self.on_no_restart => Count(sup.log, "on_no_restart") = 1

C1_Premise ==
    /\ sup.built.process = "launchable"
    /\ sup.built.restart_times # None
    /\ AlwaysFails(sup.built)

\* C1: with a finite budget n, launches that succeed and a check that fails
\* in every round, run() ends up returning Ok, and when it has returned Ok
\* after rounds that all failed it has launched the process n+1 times,
\* slept the backoff n times, fired on_restart n times and on_no_restart
\* once (each hook when registered).
C1_RestartsThenStops ==
    /\ []C1_Counts
    /\ C1_Premise ~> (sup.result = "Ok")

C1_Witness ==
    /\ sup.result = "Ok"
    /\ EveryRoundFailed(sup)
    /\ sup.built.restart_times = Some(2)
    /\ Launches(sup) = 3
    /\ Count(sup.log, "on_restart") = 2
    /\ Count(sup.log, "on_no_restart") = 1

\* ---------------------------------------------------------------- C2
C2_Premise ==
    /\ sup.built.process = "launchable"
    /\ sup.built.restart_times = None
    /\ AlwaysFails(sup.built)

C2_NeverStops ==
    C2_Premise =>
        /\ sup.self.restart_times = None
        /\ Count(sup.log, "on_no_restart") = 0
        /\ sup.pc \notin {"on_no_restart", "returned"}
        /\ sup.result = "none"

\* C2: with no budget set, launches that succeed and a check that fails in
\* every round, the budget stays None, on_no_restart never fires, run()
\* never returns, and the restarts granted and the on_restart calls (when
\* the hook is registered) grow past every k up to the rounds followed.
C2_RestartsWithoutBound ==
    /\ []C2_NeverStops
    /\ C2_Premise ~>
          /\ CountArg(sup.log, "sleep", "backoff_time") >= MaxRounds
          /\ sup.self.on_restart => Count(sup.log, "on_restart") >= MaxRounds

C2_Witness ==
    /\ C2_Premise
    /\ sup.self.on_restart
    /\ Count(sup.log, "on_restart") = MaxRounds
    /\ Launches(sup) = MaxRounds + 1

\* ---------------------------------------------------------------- C3
\* C3: as long as no predicate has returned false, on_tests_passing (when
\* registered) has fired once for each test round that ran to its end, no
\* on_restart or on_no_restart has fired, nothing was killed, the process
\* was launched at most once, and run() has not returned unless its first
\* launch failed.
C3_PassingRounds ==
    NoTestFailed(sup) =>
        /\ sup.self.on_tests_passing =>
              Count(sup.log, "on_tests_passing") = RoundsDone(sup)
        /\ Count(sup.log, "on_restart") = 0
        /\ Count(sup.log, "on_no_restart") = 0
        /\ Count(sup.log, "kill") = 0
        /\ CountArg(sup.log, "sleep", "backoff_time") = 0
        /\ Launches(sup) <= 1
        /\ sup.result # "Ok"
        /\ Launches(sup) = 1 => sup.pc # "returned" /\ sup.child.id = 1

C3_Witness ==
    /\ NoTestFailed(sup)
    /\ Len(sup.self.tests) = MaxTests
    /\ Count(sup.log, "test_true") = MaxTests * MaxRounds
    /\ Count(sup.log, "on_tests_passing") = MaxRounds
    /\ sup.built.restart_times = Some(0)

\* ---------------------------------------------------------------- C4
IsCall(e) == e.ev \in {"test_true", "test_false"}

IsTestEv(e) == e.ev \in {"test_true", "test_false", "on_test_ok", "on_test_error"}

\* Where the test round in progress (or the last one) starts in the trace.
RoundStart(log) ==
    LET S == {i \in 1..Len(log) : log[i] = Ev("sleep", "check_interval", 0)}
    IN  IF S = {} THEN 0 ELSE CHOOSE i \in S : \A j \in S : j <= i

CurrentRound(log) == SubSeq(log, RoundStart(log) + 1, Len(log))

\* The predicate calls followed by the hook each one must fire.
RECURSIVE Reported(_, _)
Reported(self, calls) ==
    IF calls = <<>> THEN <<>>
    ELSE LET c == Head(calls)
         IN  <<c>>
             \o (IF c.ev = "test_true"
                 THEN event(<<>>, self.on_test_ok, "on_test_ok", c.arg)
                 ELSE event(<<>>, self.on_test_error, "on_test_error", c.arg))
             \o Reported(self, Tail(calls))

\* C4: in every test round the predicates called are the first k tests in
\* insertion order, only the last one called may have returned false, each
\* call is followed by on_test_ok(name) when it returned true and by
\* on_test_error(name) when it returned false (when registered), nothing
\* else about tests is in the round, and a round that goes on to the kill
\* ended on a call that returned false.
C4_ShortCircuit ==
    LET R == CurrentRound(sup.log)
        calls == SelectSeq(R, IsCall)
        k == Len(calls)
    IN  /\ k <= Len(sup.self.tests)
        /\ \A j \in 1..k : calls[j].arg = sup.self.tests[j].name
        /\ \A j \in 1..(k - 1) : calls[j].ev = "test_true"
        /\ SelectSeq(R, IsTestEv) = Reported(sup.self, calls)
        /\ sup.pc = "kill" => k >= 1 /\ calls[k].ev = "test_false"
        /\ sup.pc = "passing" =>
              k = Len(sup.self.tests) /\ Count(R, "test_false") = 0

\* A first round where A passed and B failed, then a round where A failed
\* and B was not called.
C4_Witness ==
    /\ sup.pc = "kill"
    /\ Len(sup.self.tests) = 2
    /\ sup.self.on_test_ok /\ sup.self.on_test_error
    /\ SelectSeq(sup.log, IsTestEv) =
          << Ev("test_true", "A", 1), Ev("on_test_ok", "A", 0),
             Ev("test_false", "B", 1), Ev("on_test_error", "B", 0),
             Ev("test_false", "A", 2), Ev("on_test_error", "A", 0) >>

\* ---------------------------------------------------------------- C5
SpawnFailed(e) == e.ev = "spawn" /\ e.arg = "err"

C5_NoRetry ==
    \A i \in 1..Len(sup.log) :
        SpawnFailed(sup.log[i]) =>
            /\ i = Len(sup.log)
            /\ sup.pc = "returned"
            /\ sup.result = "Err"

C5_FailedSpawnStep ==
    (/\ sup.pc = "spawn"
     /\ Len(sup'.log) > Len(sup.log)
     /\ SpawnFailed(sup'.log[Len(sup'.log)]))
    => /\ sup'.pc = "returned"
       /\ sup'.result = "Err"
       /\ sup'.self = sup.self

\* C5: a failed launch, the first or a later one, is the last thing run()
\* does: it returns Err at once, attempts no other launch whatever budget
\* is left, and leaves the restart budget as it was.
C5_LaunchFailureIsFatal ==
    /\ []C5_NoRetry
    /\ [][C5_FailedSpawnStep]_vars

C5_Witness ==
    /\ sup.result = "Err"
    /\ Launches(sup) = 1
    /\ sup.built.restart_times = Some(2)
    /\ sup.self.restart_times = Some(1)

\* ---------------------------------------------------------------- C6
C6_NoHookAfter ==
    sup.result = "Err" =>
        /\ Len(sup.log) >= 1
        /\ \E i \in 1..Len(sup.log) :
              /\ SpawnFailed(sup.log[i])
              /\ \A j \in (i + 1)..Len(sup.log) : ~IsHook(sup.log[j])
        /\ Launches(sup) = 0 => HookTrace(sup.log) = <<>>

C6_ReturnStep ==
    (sup.pc = "spawn" /\ sup'.pc = "returned") =>
        HookTrace(sup'.log) = HookTrace(sup.log)

\* C6: a failed launch calls no hook: the step of run() that fails to spawn
\* and returns adds nothing to the hook trace, no hook call follows the
\* failed spawn, and when the first launch fails the hook trace is empty.
C6_LaunchFailureFiresNoHook ==
    /\ []C6_NoHookAfter
    /\ [][C6_ReturnStep]_vars

C6_Witness ==
    /\ sup.result = "Err"
    /\ Launches(sup) = 0
    /\ sup.self.on_no_restart /\ sup.self.on_restart /\ sup.self.on_test_start
    /\ sup.log = << Ev("spawn", "err", 0) >>

\* ---------------------------------------------------------------- C7
C7_Results ==
    /\ (sup.pc = "returned") <=> (sup.result # "none")
    /\ (sup.result = "Err") <=> (CountArg(sup.log, "spawn", "err") >= 1)
    /\ sup.result = "Ok" =>
          /\ sup.self.restart_times = Some(0)
          /\ sup.built.restart_times # None
          /\ Count(sup.log, "kill") =
                CountArg(sup.log, "sleep", "backoff_time") + 1

C7_ReturnSteps ==
    /\ (sup.result = "none" /\ sup'.result = "Err") => sup.pc = "spawn"
    /\ (sup.result = "none" /\ sup'.result = "Ok") =>
          /\ sup.pc = "on_no_restart"
          /\ sup.self.restart_times = Some(0)
    /\ sup.pc \in {"sleep", "test_start", "eval", "passing", "kill",
                   "should_restart", "backoff", "on_restart"} =>
          sup'.result = "none"

\* C7: run() has returned Err exactly when a launch failed, and only the
\* spawn step makes it Err; it returns Ok only from the NoRestart branch,
\* with a finite budget that is 0, after one more kill than backoffs; no
\* step of the test loop other than that branch ends the run, so a failing
\* predicate is never returned as an error.
C7_OnlyLaunchFailureIsAnError ==
    /\ []C7_Results
    /\ [][C7_ReturnSteps]_vars

C7_Witness ==
    /\ sup.result = "Ok"
    /\ Count(sup.log, "test_false") = 3
    /\ sup.built.process = "unreliable"

\* ---------------------------------------------------------------- C8
\* Two runs that differ in nothing but the Child handles.
SameRun(a, b) ==
    /\ a.log = b.log
    /\ a.pc = b.pc
    /\ a.idx = b.idx
    /\ a.self = b.self
    /\ a.result = b.result

KillsDiffer == sup.child.kill # twin.child.kill

C8_KillStep(s, t) ==
    (s.pc = "kill" /\ t.log # s.log) =>
        /\ t.pc = "should_restart"
        /\ t.self = s.self
        /\ t.result = "none"
        /\ t.log = Append(s.log, Ev("kill", "", s.child.id))

C8_Steps ==
    /\ C8_KillStep(sup, sup')
    /\ C8_KillStep(twin, twin')
    /\ KillsDiffer => SameRun(sup', twin')

\* C8: whatever kill() returns, the step after it is the restart decision,
\* and of two supervisors built alike of which one's kill succeeded and the
\* other's failed, the budget, the trace of hooks, sleeps and launches, the
\* place in run() and its result stay the same, there and one step on.
C8_KillResultIsIgnored ==
    /\ [](KillsDiffer => SameRun(sup, twin))
    /\ [][C8_Steps]_vars

C8_Witness ==
    /\ sup.child.kill = "ok"
    /\ twin.child.kill = "err"
    /\ twin.child.alive
    /\ sup.pc = "on_restart"
    /\ sup.built.restart_times = Some(1)
    /\ sup.self.restart_times = Some(0)
    /\ twin.self.restart_times = Some(0)

\* ---------------------------------------------------------------- C9
AllHooks(self) ==
    /\ self.on_test_start /\ self.on_tests_passing /\ self.on_test_ok
    /\ self.on_test_error /\ self.on_restart /\ self.on_no_restart

\* n times (on_test_start, on_test_error(T), on_restart), then
\* (on_test_start, on_test_error(T), on_no_restart).
RECURSIVE FailingTrace(_, _)
FailingTrace(T, n) ==
    IF n = 0
    THEN << Ev("on_test_start", "", 0), Ev("on_test_error", T, 0),
            Ev("on_no_restart", "", 0) >>
    ELSE << Ev("on_test_start", "", 0), Ev("on_test_error", T, 0),
            Ev("on_restart", "", 0) >> \o FailingTrace(T, n - 1)

IsPrefix(p, q) == Len(p) <= Len(q) /\ p = SubSeq(q, 1, Len(p))

C9_Premise ==
    /\ Len(sup.built.tests) = 1
    /\ sup.built.tests[1].kind = "false"
    /\ sup.built.restart_times # None
    /\ AllHooks(sup.built)

\* C9: with one test T that always fails, a finite budget n and every hook
\* registered, the hook trace is at all times a prefix of n times
\* (on_test_start, on_test_error(T), on_restart) followed by (on_test_start,
\* on_test_error(T), on_no_restart); it is the whole of it exactly when
\* run() has returned Ok, and on_test_start has then fired n+1 times.
C9_HookTrace ==
    C9_Premise =>
        LET n == Unwrap(sup.built.restart_times)
            E == FailingTrace(sup.built.tests[1].name, n)
        IN  /\ IsPrefix(HookTrace(sup.log), E)
            /\ (sup.result = "Ok") <=> (HookTrace(sup.log) = E)
            /\ sup.result = "Ok" => Count(sup.log, "on_test_start") = n + 1

C9_Witness ==
    /\ C9_Premise
    /\ sup.built.restart_times = Some(2)
    /\ sup.result = "Ok"
    /\ Len(HookTrace(sup.log)) = 9

\* --------------------------------------------------------------- C10
IsProcEv(e) == e.ev \in {"spawn", "kill"}

\* The launches and kills of a trace, in order.
ProcTrace(log) == SelectSeq(log, IsProcEv)

\* C10: two supervisors built alike, given the same launch outcomes and the
\* same predicate outcomes, have at every point the same hook trace, the
\* same sequence of launches and kills, and the same result of run().
C10_SameRuns ==
    /\ HookTrace(sup.log) = HookTrace(twin.log)
    /\ ProcTrace(sup.log) = ProcTrace(twin.log)
    /\ sup.result = twin.result
    /\ sup.self.restart_times = twin.self.restart_times

C10_Witness ==
    /\ sup.result = "Ok"
    /\ twin.result = "Ok"
    /\ AllHooks(sup.built)
    /\ Launches(twin) = 2
    /\ Count(sup.log, "on_tests_passing") = 1
    /\ Count(twin.log, "on_restart") = 1
    /\ Count(twin.log, "on_no_restart") = 1

\* --------------------------------------------------------------- C11
\* The state of the supervision state machine a position of run() is in.
\* The NoRestart branch, once decided, is Stopped: what is left of it is
\* the on_no_restart call and the return.
Phase(s) ==
    CASE s.pc = "spawn" -> "Launching"
      [] s.pc \in {"sleep", "test_start", "eval", "passing"} -> "Running"
      [] s.pc \in {"kill", "should_restart"} -> "Deciding"
      [] s.pc \in {"backoff", "on_restart"} -> "Backoff"
      [] s.pc = "on_no_restart" -> "Stopped"
      [] s.pc = "returned" /\ s.result = "Ok" -> "Stopped"
      [] OTHER -> "Failed"

\* The transitions of the state machine, from s to t.
Listed(s, t) ==
    LET p == Phase(s)
        q == Phase(t)
    IN  \/ p = q /\ s.pc # "returned"
        \/ /\ p = "Running" /\ q = "Deciding"
           /\ Count(t.log, "test_false") = Count(s.log, "test_false") + 1
        \/ p = "Deciding" /\ q = "Backoff" /\ s.self.restart_times # Some(0)
        \/ p = "Backoff" /\ q = "Launching"
        \/ p = "Launching" /\ q = "Running"
        \/ p = "Deciding" /\ q = "Stopped" /\ s.self.restart_times = Some(0)

\* The launch fails and run() returns the error.
LaunchFails(s, t) ==
    /\ Phase(s) = "Launching" /\ Phase(t) = "Failed"
    /\ t.log = Append(s.log, Ev("spawn", "err", 0))

\* The claim as stated: every step is one of the listed transitions.
C11_ListedOnly == [][Listed(sup, sup')]_vars

\* C11 (amended): every step of the supervisor is one of Running -> Running,
\* Running -> Deciding (a predicate returned false), Deciding -> Backoff ->
\* Launching -> Running (budget not 0), Deciding -> Stopped (budget 0), or
\* Launching -> Failed (the launch failed); Stopped and Failed are
\* terminal: once run() has returned nothing is launched, slept, evaluated,
\* killed or called.
C11_Transitions ==
    /\ [][Listed(sup, sup') \/ LaunchFails(sup, sup')]_vars
    /\ [](sup.pc = "returned" => ~ENABLED Next)

C11_Witness ==
    /\ Phase(sup) = "Stopped"
    /\ sup.pc = "returned"
    /\ Launches(sup) = 2
    /\ Count(sup.log, "on_tests_passing") = 1
    /\ Count(sup.log, "on_no_restart") = 1

\* --------------------------------------------------------------- C12
C12_OnlyBudgetChanges ==
    [sup.self EXCEPT !.restart_times = sup.built.restart_times] = sup.built

C12_BudgetStep ==
    LET before == sup.self.restart_times
        after == sup'.self.restart_times
        granted == sup.pc = "should_restart" /\ sup'.pc = "backoff"
    IN  /\ after # before =>
              /\ granted
              /\ before # None /\ after # None
              /\ Unwrap(before) > 0
              /\ Unwrap(after) = Unwrap(before) - 1
        /\ (granted /\ before # None) => after = Some(Unwrap(before) - 1)

\* C12: during run() process, args, check_interval, backoff_time, tests and
\* the hook slots stay as built; restart_times changes only in the step
\* where should_restart grants a restart on a finite budget above 0, which
\* takes exactly 1 off it, and every such grant does so.
C12_BudgetIsTheOnlyMutableField ==
    /\ []C12_OnlyBudgetChanges
    /\ [][C12_BudgetStep]_vars

C12_Witness ==
    /\ sup.pc = "backoff"
    /\ sup.built.restart_times = Some(2)
    /\ sup.self.restart_times = Some(0)
    /\ Count(sup.log, "test_true") >= 1

\* --------------------------------------------------------------- C13
\* The field a builder call is for.
FieldOf(ev) ==
    CASE ev = "with_check_interval" -> "check_interval"
      [] ev = "with_backoff_time"   -> "backoff_time"
      [] ev = "with_restart_times"  -> "restart_times"
      [] ev = "with_args"           -> "args"
      [] ev = "add_test"            -> "tests"
      [] OTHER                      -> ev

C13_Fresh ==
    Len(sup.log) = 0 =>
        /\ sup.self.process \in Processes
        /\ sup.self.args = <<>>
        /\ sup.self.check_interval = 30
        /\ sup.self.backoff_time = 30
        /\ sup.self.restart_times = None
        /\ sup.self.tests = <<>>
        /\ \A h \in Hooks : sup.self[h] = FALSE

C13_Call ==
    Len(sup'.log) = Len(sup.log) + 1 =>
        LET c == sup'.log[Len(sup'.log)]
            was == sup.self
            is == sup'.self
        IN  /\ \A f \in DOMAIN was \ {FieldOf(c.ev)} : is[f] = was[f]
            /\ c.ev \in {"with_check_interval", "with_backoff_time"} =>
                  is[FieldOf(c.ev)] = c.val
            /\ c.ev = "with_restart_times" => is.restart_times = Some(c.val)
            /\ c.ev = "with_args" => is.args = c.val
            /\ c.ev \in Hooks => is[c.ev] = TRUE
            /\ c.ev = "add_test" =>
                  /\ Len(is.tests) = Len(was.tests) + 1
                  /\ SubSeq(is.tests, 1, Len(was.tests)) = was.tests
                  /\ is.tests[Len(is.tests)] = c.val

\* C13: new(process) has check_interval and backoff_time of 30 s, no budget,
\* no args, no tests and no hooks; every builder call leaves every field
\* but its own as it was and sets its own to the value given, and add_test
\* keeps the tests already there, in their order, with the new one last.
C13_BuilderFrame ==
    /\ []C13_Fresh
    /\ [][C13_Call]_vars

C13_Witness ==
    /\ Len(sup.log) = 3
    /\ sup.log[3].ev = "with_restart_times"
    /\ sup.self.restart_times = Some(1)
    /\ sup.self.check_interval = 15
    /\ Len(sup.self.tests) = 1

\* --------------------------------------------------------------- C14
IsBackoff(e) == e = Ev("sleep", "backoff_time", 0)

\* What each entry of the trace comes right after.
C14_Order ==
    \A i \in 1..Len(sup.log) :
        LET e == sup.log[i]
            before == sup.log[i - 1]
        IN  /\ e.ev = "on_restart" => i > 1 /\ IsBackoff(before)
            /\ IsBackoff(e) => i > 1 /\ before.ev = "kill"
            /\ e.ev = "kill" =>
                  /\ i > 1
                  /\ before.ev = IF sup.self.on_test_error
                                 THEN "on_test_error" ELSE "test_false"
                  /\ before.ev = "on_test_error" =>
                        /\ i > 2
                        /\ sup.log[i - 2].ev = "test_false"
                        /\ sup.log[i - 2].arg = before.arg
                        /\ sup.log[i - 2].h = e.h
            /\ (e.ev = "spawn" /\ i > 1) =>
                  IF sup.self.on_restart
                  THEN before.ev = "on_restart" ELSE IsBackoff(before)

\* The budget is decremented between the kill and the backoff sleep.
C14_DecrementStep ==
    sup'.self.restart_times # sup.self.restart_times =>
        /\ Len(sup.log) >= 1
        /\ sup.log[Len(sup.log)].ev = "kill"
        /\ sup'.log = sup.log
        /\ sup'.pc = "backoff"

\* C14: in a failed round that is granted a restart the order is: the
\* predicate returns false, on_test_error(name), kill of that handle, the
\* budget decrement (if finite), the backoff sleep, on_restart, the next
\* launch; on_restart comes right after a backoff sleep and every launch
\* but the first right after on_restart (after the backoff sleep when the
\* hook is not registered).
C14_RestartOrder ==
    /\ []C14_Order
    /\ [][C14_DecrementStep]_vars

C14_Witness ==
    /\ AllHooks(sup.built)
    /\ sup.built.restart_times = Some(2)
    /\ sup.self.restart_times = Some(1)
    /\ sup.pc = "sleep"
    /\ Launches(sup) = 2
    /\ SubSeq(sup.log, Len(sup.log) - 5, Len(sup.log)) =
          << Ev("test_false", "B", 1), Ev("on_test_error", "B", 0),
             Ev("kill", "", 1), Ev("sleep", "backoff_time", 0),
             Ev("on_restart", "", 0), Ev("spawn", "ok", 2) >>

\* --------------------------------------------------------------- C15
Backoffs(s) == CountArg(s.log, "sleep", "backoff_time")

\* Restarts should_restart has granted: the units taken off a finite
\* budget; with no budget, every failed round that reached the decision.
Granted(s) ==
    IF s.built.restart_times # None
    THEN Unwrap(s.built.restart_times) - Unwrap(s.self.restart_times)
    ELSE Count(s.log, "kill") - (IF s.pc = "should_restart" THEN 1 ELSE 0)

C15_Stop ==
    /\ \A i \in 1..Len(sup.log) :
          sup.log[i].ev = "on_no_restart" => i > 1 /\ sup.log[i - 1].ev = "kill"
    /\ (sup.pc = "on_no_restart" \/ sup.result = "Ok") =>
          LET did == SelectSeq(sup.log, LAMBDA e : ~IsHook(e))
          IN  /\ sup.self.restart_times = Some(0)
              /\ Len(did) >= 1
              /\ did[Len(did)].ev = "kill"
    /\ Backoffs(sup) = Granted(sup) - (IF sup.pc = "backoff" THEN 1 ELSE 0)

\* The steps of run() itself; the process exiting is the other kind of step.
C15_StopSteps ==
    sup'.pc # sup.pc =>
        /\ (sup.pc = "should_restart" /\ sup.self.restart_times = Some(0)) =>
              sup'.pc = "on_no_restart" /\ sup'.log = sup.log
        /\ sup.pc = "on_no_restart" =>
              /\ sup'.pc = "returned" /\ sup'.result = "Ok"
              /\ Count(sup'.log, "sleep") = Count(sup.log, "sleep")
              /\ sup'.log = event(sup.log, sup.self.on_no_restart,
                                  "on_no_restart", "")

\* C15: a round that fails with the budget at 0 goes from the kill to
\* on_no_restart and the return of NoRestart with no sleep in between:
\* on_no_restart comes right after a kill, the last thing run() did before
\* returning Ok is a kill, and the backoff sleeps are as many as the
\* restarts granted (one less while the sleep of a grant is still to come).
C15_NoBackoffWhenStopping ==
    /\ []C15_Stop
    /\ [][C15_StopSteps]_vars

C15_Witness ==
    /\ sup.result = "Ok"
    /\ sup.self.on_no_restart
    /\ Backoffs(sup) = 2
    /\ Count(sup.log, "kill") = 3
    /\ sup.log[Len(sup.log)].ev = "on_no_restart"

\* --------------------------------------------------------------- C16
IsCheckSleep(e) == e = Ev("sleep", "check_interval", 0)

\* How every round starts: sleep, then on_test_start, then the predicates.
C16_RoundStarts ==
    \A i \in 1..Len(sup.log) :
        LET e == sup.log[i]
        IN  /\ (e.ev = "spawn" /\ e.arg = "ok" /\ i < Len(sup.log)) =>
                  IsCheckSleep(sup.log[i + 1])
            /\ (IsCheckSleep(e) /\ i < Len(sup.log) /\ sup.self.on_test_start) =>
                  sup.log[i + 1].ev = "on_test_start"
            /\ e.ev = "on_test_start" => i > 1 /\ IsCheckSleep(sup.log[i - 1])
            /\ IsCall(e) => RoundStart(sup.log) >= 1

\* How the round in progress, or the last one, stands and ends.
C16_RoundEnds ==
    LET R == CurrentRound(sup.log)
        n(ev) == Count(R, ev)
    IN  Rounds(sup) >= 1 =>
          /\ n("on_test_start") =
                IF sup.self.on_test_start /\ sup.pc # "test_start" THEN 1 ELSE 0
          /\ n("kill") <= 1 /\ n("on_test_error") <= 1
          /\ n("on_tests_passing") <= 1 /\ n("test_false") <= 1
          /\ n("test_false") = 1 =>
                /\ sup.self.on_test_error => n("on_test_error") = 1
                /\ n("on_tests_passing") = 0
                /\ n("kill") = IF sup.pc = "kill" THEN 0 ELSE 1
          /\ n("test_false") = 0 =>
                /\ n("on_test_error") = 0
                /\ n("kill") = 0
                /\ sup.child.id = Launches(sup)
                /\ sup.pc \in {"test_start", "eval", "passing", "sleep"}
                /\ n("on_tests_passing") =
                      IF sup.self.on_tests_passing /\ sup.pc = "sleep"
                      THEN 1 ELSE 0
                /\ sup.pc = "sleep" => n("test_true") = Len(sup.self.tests)

C16_PassingSteps ==
    sup.pc \in {"sleep", "test_start", "eval", "passing"} =>
        sup'.self = sup.self

\* C16: every launch is followed by a check_interval sleep, every such
\* sleep by one on_test_start, and predicates are called only after them;
\* a round ends either with every test true, on_tests_passing fired once,
\* no on_test_error, no kill, the same handle and an unchanged budget, or
\* with one predicate false, on_test_error fired exactly once, no
\* on_tests_passing, and one kill.
C16_RoundShape ==
    /\ []C16_RoundStarts
    /\ []C16_RoundEnds
    /\ [][C16_PassingSteps]_vars

\* A failed round, a restart, then a round that passed.
C16_Witness ==
    /\ AllHooks(sup.built)
    /\ sup.pc = "sleep"
    /\ Launches(sup) = 2
    /\ Count(sup.log, "on_test_start") = 2
    /\ Count(sup.log, "on_test_error") = 1
    /\ Count(CurrentRound(sup.log), "on_tests_passing") = 1
    /\ Count(CurrentRound(sup.log), "test_true") = 2

\* --------------------------------------------------------------- C17
\* The handle spawn() returned last, as of entry i of the trace.
HandleAt(log, i) == CountArg(SubSeq(log, 1, i), "spawn", "ok")

UsesHandle(e) == IsCall(e) \/ e.ev = "kill"

\* C17: the handle the supervisor holds is the one of the last launch, and
\* none when run() is about to launch or has returned;
\* every predicate call and every kill is made on that handle; a launch
\* after the first comes only after a kill attempt on the handle before
\* it; and no handle is used again after its kill attempt.
C17_OneHandle ==
    /\ sup.child.id = IF sup.pc \in {"spawn", "returned"} THEN 0 ELSE Launches(sup)
    /\ \A i \in 1..Len(sup.log) :
          LET e == sup.log[i]
          IN  /\ UsesHandle(e) => e.h >= 1 /\ e.h = HandleAt(sup.log, i)
              /\ (e.ev = "spawn" /\ i > 1) =>
                    \E j \in 1..(i - 1) :
                        /\ sup.log[j] = Ev("kill", "", HandleAt(sup.log, i - 1))
                        /\ \A k \in (j + 1)..(i - 1) : ~UsesHandle(sup.log[k])
              /\ e.ev = "kill" =>
                    \A k \in (i + 1)..Len(sup.log) :
                        UsesHandle(sup.log[k]) => sup.log[k].h # e.h

\* Two failed rounds and a relaunch in between, the process of the first
\* round having exited before the supervisor went to kill it.
C17_Witness ==
    /\ Launches(sup) = 2
    /\ Count(sup.log, "kill") = 2
    /\ \E i \in 1..Len(sup.log) :
          /\ sup.log[i] = Ev("test_false", "A", 1)
          /\ sup.built.tests[1].kind = "alive"
    /\ sup.pc = "should_restart"

\* --------------------------------------------------------------- C18
\* Restarts granted so far, read off the control flow: every grant is
\* followed by the backoff sleep, the last one possibly still to come.
GrantsTaken(s) == Backoffs(s) + (IF s.pc = "backoff" THEN 1 ELSE 0)

C18_Budget ==
    sup.built.restart_times # None =>
        LET n == Unwrap(sup.built.restart_times)
        IN  /\ sup.self.restart_times # None
            /\ Unwrap(sup.self.restart_times) \in 0..n
            /\ GrantsTaken(sup) + Unwrap(sup.self.restart_times) = n
            /\ Launches(sup) <= n + 1
            /\ sup.self.restart_times = Some(0) =>
                  should_restart(sup.self) = [ret |-> FALSE, self |-> sup.self]

C18_NeverIncreases ==
    sup.self.restart_times # None =>
        /\ sup'.self.restart_times # None
        /\ Unwrap(sup'.self.restart_times) <= Unwrap(sup.self.restart_times)
        /\ Unwrap(sup'.self.restart_times) >= Unwrap(sup.self.restart_times) - 1

\* C18: with a finite budget n the remaining budget stays within 0..n and
\* never increases, the restarts granted and the remaining budget add up
\* to n, at most n + 1 launches succeed, and should_restart at budget 0
\* returns false and leaves the budget at 0.
C18_BudgetBounds ==
    /\ []C18_Budget
    /\ [][C18_NeverIncreases]_vars

\* The whole budget of MaxBudget spent, and should_restart has refused.
C18_Witness ==
    /\ sup.built.restart_times = Some(MaxBudget)
    /\ sup.self.restart_times = Some(0)
    /\ Launches(sup) = MaxBudget + 1
    /\ sup.pc = "on_no_restart"

\* --------------------------------------------------------------- C19
\* No test was added, and the process has been launched.
C19_Premise == Len(sup.built.tests) = 0 /\ Launches(sup) = 1

C19_Vacuous ==
    Len(sup.built.tests) = 0 =>
        /\ Launches(sup) <= 1
        /\ \A i \in 1..Len(sup.log) :
              sup.log[i].ev \in {"spawn", "sleep", "on_test_start",
                                 "on_tests_passing"}
        /\ Backoffs(sup) = 0
        /\ sup.self = sup.built
        /\ sup.result # "Ok"
        /\ Launches(sup) = 1 =>
              /\ sup.pc \in {"sleep", "test_start", "passing"}
              /\ sup.result = "none"
              /\ sup.child.id = 1
              /\ Count(sup.log, "on_test_start") =
                    IF ~sup.self.on_test_start THEN 0
                    ELSE Rounds(sup) - (IF sup.pc = "test_start" THEN 1 ELSE 0)
              /\ Count(sup.log, "on_tests_passing") =
                    IF sup.self.on_tests_passing THEN RoundsDone(sup) ELSE 0

C19_AllRoundsPassed == sup.pc = "sleep" /\ RoundsDone(sup) = MaxRounds

\* C19: with no test added, once the process is launched the trace holds
\* nothing but the launch, the check_interval sleeps, one on_test_start
\* per round and one on_tests_passing per round; nothing is killed or
\* relaunched, the budget is not touched and run() does not return,
\* whatever the budget and whether or not the process has exited; and
\* every round that starts runs to its end, up to the rounds followed.
C19_NoTests ==
    /\ []C19_Vacuous
    /\ C19_Premise ~> C19_AllRoundsPassed
    /\ (C19_Premise /\ ~sup.child.alive /\ Rounds(sup) = 0) ~>
          (C19_AllRoundsPassed /\ ~sup.child.alive)

\* Every round followed has passed although the process has exited and
\* the budget is 0.
C19_Witness ==
    /\ C19_Premise
    /\ sup.built.restart_times = Some(0)
    /\ AllHooks(sup.built)
    /\ ~sup.child.alive
    /\ C19_AllRoundsPassed
    /\ Count(sup.log, "on_tests_passing") = MaxRounds

\* --------------------------------------------------------------- C20
\* Launches that succeeded after the first one.
Relaunches(s) == IF Launches(s) = 0 THEN 0 ELSE Launches(s) - 1

\* Budget units taken so far.
UnitsTaken(s) ==
    Unwrap(s.built.restart_times) - Unwrap(s.self.restart_times)

C20_Returned ==
    /\ sup.result = "Ok" =>
          /\ Launches(sup) >= 1
          /\ Backoffs(sup) = Relaunches(sup)
          /\ Count(sup.log, "on_restart") =
                IF sup.self.on_restart THEN Relaunches(sup) ELSE 0
          /\ sup.built.restart_times # None =>
                UnitsTaken(sup) = Relaunches(sup)
    /\ (sup.result = "Err" /\ Launches(sup) >= 1) =>
          /\ Backoffs(sup) = Relaunches(sup) + 1
          /\ Count(sup.log, "on_restart") =
                IF sup.self.on_restart THEN Relaunches(sup) + 1 ELSE 0
          /\ sup.built.restart_times # None =>
                UnitsTaken(sup) = Relaunches(sup) + 1
    /\ (sup.result = "Err" /\ Launches(sup) = 0) =>
          /\ Backoffs(sup) = 0
          /\ Count(sup.log, "on_restart") = 0
          /\ sup.self = sup.built

\* Every launch after the first is attempted with the restart already
\* granted, paid for and announced.
C20_BeforeRelaunch ==
    (sup.pc = "spawn" /\ Launches(sup) >= 1) =>
        /\ Backoffs(sup) = Launches(sup)
        /\ sup.self.on_restart => Count(sup.log, "on_restart") = Launches(sup)
        /\ sup.built.restart_times # None => UnitsTaken(sup) = Launches(sup)

C20_LaunchSteps ==
    sup.pc = "spawn" =>
        /\ sup'.self = sup.self
        /\ Count(sup'.log, "on_restart") = Count(sup.log, "on_restart")

\* C20: when run() has returned Ok, on_restart (when registered) has fired
\* once per successful relaunch and as many budget units were taken; when
\* run() has returned the error of a relaunch, on_restart has fired once
\* more than relaunches succeeded and one more budget unit was taken, the
\* failed launch giving nothing back.
C20_RestartsAndRelaunches ==
    /\ []C20_Returned
    /\ []C20_BeforeRelaunch
    /\ [][C20_LaunchSteps]_vars

\* run() has returned the error of the second relaunch, the last unit of
\* the budget spent on it.
C20_Witness ==
    /\ sup.result = "Err"
    /\ sup.built.restart_times = Some(MaxBudget)
    /\ sup.self.restart_times = Some(0)
    /\ sup.self.on_restart
    /\ Launches(sup) = MaxBudget
    /\ Count(sup.log, "on_restart") = MaxBudget

====
